---- MODULE Spec2Model ----
(***************************************************************************)
(* WordSeer.controller.FrequentWordsController                             *)
(* (app/wordseer/static/wordseer_app/controller/FrequentWordsController.js)*)
(*                                                                         *)
(* The controller wires five events: newSlice and menuButtonClicked on a   *)
(* layout panel, optionEvent on the frequent-words and phraseslist views,  *)
(* and datachanged / afterrender on the frequent-words views.  JavaScript  *)
(* runs each handler to completion, so each handler is one action.         *)
(***************************************************************************)
EXTENDS Integers, Sequences, FiniteSets, TLC

VARIABLES
    groupedByStem,      \* view -> BOOLEAN        view.groupedByStem
    orderedByDiffProp,  \* view -> BOOLEAN        view.orderedByDiffProp
    store,              \* view -> [data, filters, sorters]   view.getStore()
    dom,                \* view -> Seq of .lollipop elements under component.el.dom
    scaleCalls,         \* view -> the arguments the last lollipop pass gave to scale
    stemRun,            \* view -> states before the latest consecutive group-by-stem events
    stemToggled,        \* view -> BOOLEAN, a group-by-stem event has been handled
    panelItems,         \* panel -> Seq of itemIds    panel.add / panel.getComponent
    created,            \* panel -> number of MenuOverlay components created
    shown,              \* panel -> number of overlay.showBy calls
    formValues,         \* panel -> <<>> (unset) or <<fv>>    panel.formValues
    loadCount,          \* panel -> store name -> number of load calls
    lastParams,         \* panel -> store name -> params of the latest load call
    lastEvent           \* the event the dispatcher delivered last

vars == << groupedByStem, orderedByDiffProp, store, dom, scaleCalls, stemRun,
           stemToggled, panelItems, created, shown, formValues, loadCount,
           lastParams, lastEvent >>

viewVars  == << groupedByStem, orderedByDiffProp, store, dom, scaleCalls,
                stemRun, stemToggled >>
panelVars == << panelItems, created, shown, formValues, loadCount, lastParams >>

----------------------------------------------------------------------------
(* Bounds                                                                  *)

MaxRows       == 2    \* rows in a frequent-words store
MaxScoreVal   == 2    \* score_sentences ranges over 0..MaxScoreVal
MaxPasses     == 2    \* lollipop passes over one rendering of the rows
MaxLoads      == 2    \* load calls per store

----------------------------------------------------------------------------
(* Views, rows and the store                                               *)

FrequentWordsViews == {"nouns"}          \* xtype 'frequent-words'
PhrasesViews       == {"phrases"}        \* xtype 'phraseslist'
Views              == FrequentWordsViews \cup PhrasesViews

Actions == {"group-by-stem", "order-by-score", "other"}

Counts == {1, 2}
Scores == 0..MaxScoreVal

Rows == [count : Counts, score_sentences : Scores, is_lemmatized : {0, 1}]

Row(count, score, lem) ==
    [count |-> count, score_sentences |-> score, is_lemmatized |-> lem]

\* Sample contents for the stores of two views side by side.
SampleRowLists ==
    { << Row(1, 2, 0), Row(2, 1, 1) >>,
      << Row(2, 0, 1), Row(1, 1, 1) >>,
      << Row(1, 1, 0) >> }

RowListsOver(rows, n) == UNION {[1..k -> rows] : k \in 0..n}

RowListsUpTo(n) == RowListsOver(Rows, n)

\* Rows that differ in score and in lemma kind only: what a lollipop pass can tell apart.
ScoredRows == {row \in Rows : row.count = 1}

\* One filter matches a row: the row's property equals the filter's value.
Matches(row, f) ==
    IF f.property = "is_lemmatized" THEN row.is_lemmatized = f.value
    ELSE IF f.property = "count" THEN row.count = f.value
    ELSE row.score_sentences = f.value

\* The rows of a store that pass every active filter, in store order.
Visible(st) ==
    LET Pass(row) == \A i \in 1..Len(st.filters) : Matches(row, st.filters[i])
    IN  SelectSeq(st.data, Pass)

KeyOf(row, property) ==
    IF property = "count" THEN row.count
    ELSE IF property = "score_sentences" THEN row.score_sentences
    ELSE row.is_lemmatized

\* Inserts row into an ordered sequence, behind the rows that rank at least as high.
RECURSIVE InsertRow(_, _, _)
InsertRow(row, s, sorter) ==
    IF s = << >> THEN << row >>
    ELSE LET before == IF sorter.direction = "DESC"
                       THEN KeyOf(Head(s), sorter.property) >= KeyOf(row, sorter.property)
                       ELSE KeyOf(Head(s), sorter.property) <= KeyOf(row, sorter.property)
         IN  IF before THEN << Head(s) >> \o InsertRow(row, Tail(s), sorter)
             ELSE << row >> \o s

RECURSIVE SortRows(_, _)
SortRows(s, sorter) ==
    IF s = << >> THEN << >>
    ELSE InsertRow(s[Len(s)], SortRows(SubSeq(s, 1, Len(s) - 1), sorter), sorter)

\* store.clearFilter(): no filter stays active.
clearFilter(st) == [st EXCEPT !.filters = << >>]

\* store.filter(f): f is added to the active filters.
filter(st, f) == [st EXCEPT !.filters = Append(@, f)]

\* store.sort(s): s becomes the store's sorter and the rows are put in its order.
sort(st, s) == [st EXCEPT !.sorters = << s >>, !.data = SortRows(@, s)]

applyFiltersNoClear(st, flag) ==
    filter(st, [property |-> "is_lemmatized", value |-> IF flag THEN 1 ELSE 0])

\* applyFilters(frequent_words_list), on the view's store and groupedByStem flag
applyFilters(st, flag) ==
    LET value == IF flag THEN 1 ELSE 0
    IN  filter(clearFilter(st), [property |-> "is_lemmatized", value |-> value])

applySorterAscending(st, flag) ==
    sort(st, [property |-> IF flag THEN "score_sentences" ELSE "count",
              direction |-> "ASC"])

\* applySorter(frequent_words_list), on the view's store and orderedByDiffProp flag
applySorter(st, flag) ==
    LET property == IF flag THEN "score_sentences" ELSE "count"
    IN  sort(st, [property |-> property, direction |-> "DESC"])

optionEventFallThrough(view, action) ==
    IF action = "group-by-stem"
    THEN /\ groupedByStem' = [groupedByStem EXCEPT ![view] = ~@]
         /\ orderedByDiffProp' = [orderedByDiffProp EXCEPT ![view] = ~@]
         /\ store' = [store EXCEPT
                ![view] = applySorter(applyFilters(@, ~groupedByStem[view]),
                                      ~orderedByDiffProp[view])]
    ELSE IF action = "order-by-score"
    THEN /\ orderedByDiffProp' = [orderedByDiffProp EXCEPT ![view] = ~@]
         /\ store' = [store EXCEPT ![view] = applySorter(@, ~orderedByDiffProp[view])]
         /\ UNCHANGED groupedByStem
    ELSE UNCHANGED << groupedByStem, orderedByDiffProp, store >>

\* The optionEvent handler: option.option.action selects the toggle.
optionEvent(view, action) ==
    IF action = "group-by-stem"
    THEN /\ groupedByStem' = [groupedByStem EXCEPT ![view] = ~@]
         /\ store' = [store EXCEPT ![view] = applyFilters(@, ~groupedByStem[view])]
         /\ UNCHANGED orderedByDiffProp
    ELSE IF action = "order-by-score"
    THEN /\ orderedByDiffProp' = [orderedByDiffProp EXCEPT ![view] = ~@]
         /\ store' = [store EXCEPT ![view] = applySorter(@, ~orderedByDiffProp[view])]
         /\ UNCHANGED groupedByStem
    ELSE UNCHANGED << groupedByStem, orderedByDiffProp, store >>

----------------------------------------------------------------------------
(* The rendered rows and the lollipop pass                                 *)

\* The view draws one '.distinct .lollipop' element per visible row, carrying
\* the row's score_sentences in its dataset and no shapes yet.
Rerender(st) ==
    LET vis == Visible(st)
    IN  [i \in 1..Len(vis) |->
            [score_sentences |-> vis[i].score_sentences,
             circles |-> << >>, lines |-> << >>]]

\* Coordinates are exact fractions num/den in lowest terms, or NaN.
RECURSIVE GCD(_, _)
GCD(a, b) == IF b = 0 THEN a ELSE GCD(b, a % b)

NaN == [nan |-> TRUE, num |-> 0, den |-> 1]
Frac(n, d) ==
    LET g == GCD(n, d)
    IN  [nan |-> FALSE, num |-> n \div g, den |-> d \div g]
Num(n) == Frac(n, 1)

Leq(a, b) == ~a.nan /\ ~b.nan /\ a.num * b.den <= b.num * a.den

\* d3.max(array, accessor): undefined for an empty array.
RECURSIVE MaxOf(_)
MaxOf(s) ==
    IF Len(s) = 1 THEN s[1]
    ELSE LET m == MaxOf(Tail(s)) IN IF s[1] >= m THEN s[1] ELSE m

d3_max(values) ==
    IF values = << >> THEN [defined |-> FALSE, value |-> 0]
    ELSE [defined |-> TRUE, value |-> MaxOf(values)]

r == 4

scaleFullWidth(maxscore, x) ==
    IF ~maxscore.defined THEN NaN
    ELSE IF maxscore.value = 0 THEN Num(r)
    ELSE Frac(r * maxscore.value + x * (100 - r), maxscore.value)

\* d3.scale.linear().domain([0, maxscore]).range([r, 100-r]), applied to x.
\* The domain [0, undefined] is [0, NaN] and maps everything to NaN; over the
\* domain [0, 0] the normalised position of x is x / Infinity = 0.
scale(maxscore, x) ==
    LET lo == r
        hi == 100 - r
    IN  IF ~maxscore.defined THEN NaN
        ELSE IF maxscore.value = 0 THEN Num(lo)
        ELSE Frac(lo * maxscore.value + x * (hi - lo), maxscore.value)

\* The scores svg.data() returns: one datum per selected element.
DataOf(elements) == [i \in 1..Len(elements) |-> elements[i].score_sentences]

\* lollipop(component): a circle and a line are appended to every element.
\* scale(0), the argument of attr('x1', ...), is evaluated once, before the
\* selection is visited, whether or not it holds any element.
lollipop(view) ==
    LET elements == dom[view]
        maxscore == d3_max(DataOf(elements))
        x1       == scale(maxscore, 0)
        Circle(e) == [cx |-> scale(maxscore, e.score_sentences), cy |-> 8, r |-> r]
        Line(e)   == [x1 |-> x1, x2 |-> scale(maxscore, e.score_sentences),
                      y1 |-> 8, y2 |-> 8, strokeWidth |-> 1]
    IN  /\ dom' = [dom EXCEPT ![view] =
               [i \in 1..Len(elements) |->
                   [elements[i] EXCEPT !.circles = Append(@, Circle(elements[i])),
                                       !.lines   = Append(@, Line(elements[i]))]]]
        /\ scaleCalls' = [scaleCalls EXCEPT ![view] =
               {0} \cup {elements[i].score_sentences : i \in 1..Len(elements)}]

----------------------------------------------------------------------------
(* Layout panels: the overlay and the slice loads                          *)

Panels     == {"p1", "p2"}
MenuTypes  == {"frequent-words", "metadata"}
StoreNames == {"NStore", "VStore", "JStore"}

\* A FormValues object: its serialized query and its search array.
Queries       == {"q1", "q2"}
SearchObjects == {("gov" :> "word")}
FormValuesSet ==
    [serialized : {("query" :> q) : q \in Queries},
     search     : {<< >>} \cup {<< o >> : o \in SearchObjects}]

getInstance == "instance"
getUsername == "user"

\* formValues.serialize(): the opaque serialized query.
serialize(fv) == fv.serialized

\* Ext.apply(object, config): config's properties are copied onto object.
ExtApply(object, config) == config @@ object

BuildParamsWithoutUser(fv) ==
    LET params == ("instance" :> getInstance)
        withQuery == ExtApply(params, serialize(fv))
    IN  IF Len(fv.search) > 0 THEN ExtApply(withQuery, fv.search[1]) ELSE withQuery

\* The params object getFrequentWordForSlice builds for the three loads.
BuildParams(fv) ==
    LET params == ("instance" :> getInstance) @@ ("user" :> getUsername)
        withQuery == ExtApply(params, serialize(fv))
    IN  IF Len(fv.search) > 0 THEN ExtApply(withQuery, fv.search[1]) ELSE withQuery

\* getFrequentWordForSlice(panel, formValues); isSameSlice is the answer of
\* panel.getLayoutPanelModel().isSameSlice().
getFrequentWordForSlice(panel, fv, isSameSlice) ==
    /\ formValues' = [formValues EXCEPT
           ![panel] = IF formValues[panel] = << >> THEN << fv >> ELSE @]
    /\ IF ~isSameSlice
       THEN /\ loadCount' = [loadCount EXCEPT
                   ![panel] = [s \in StoreNames |-> loadCount[panel][s] + 1]]
            /\ lastParams' = [lastParams EXCEPT
                   ![panel] = [s \in StoreNames |-> BuildParams(fv)]]
       ELSE UNCHANGED << loadCount, lastParams >>

showFrequentWordsOverlayUnguarded(panel) ==
    /\ created' = [created EXCEPT ![panel] = @ + 1]
    /\ shown' = [shown EXCEPT ![panel] = @ + 1]
    /\ panelItems' = [panelItems EXCEPT ![panel] = Append(@, "frequent-words-overlay")]

\* panel.getComponent(itemId): whether the panel holds a component of that id.
getComponent(panel, itemId) == \E i \in 1..Len(panelItems[panel]) : panelItems[panel][i] = itemId

\* showFrequentWordsOverlay(panel, button)
showFrequentWordsOverlay(panel) ==
    IF ~getComponent(panel, "frequent-words-overlay")
    THEN /\ created' = [created EXCEPT ![panel] = @ + 1]
         /\ shown' = [shown EXCEPT ![panel] = @ + 1]
         /\ panelItems' = [panelItems EXCEPT ![panel] = Append(@, "frequent-words-overlay")]
    ELSE UNCHANGED << created, shown, panelItems >>

\* The menuButtonClicked handler.
menuButtonClicked(panel, type) ==
    IF type = "frequent-words"
    THEN showFrequentWordsOverlay(panel)
    ELSE UNCHANGED << created, shown, panelItems >>

----------------------------------------------------------------------------
(* Events                                                                  *)

NoFormValues == << >>

Event(name, target, action, fv, same) ==
    [name |-> name, target |-> target, action |-> action, fv |-> fv, same |-> same]

\* The states before the latest group-by-stem events delivered in a row: at most two.
LastTwo(s) == IF Len(s) > 2 THEN SubSeq(s, Len(s) - 1, Len(s)) ELSE s

\* optionEvent on a view: the handler flips a flag and calls the store.
OptionEvent(view, action) ==
    /\ optionEvent(view, action)
    /\ stemRun' = [stemRun EXCEPT ![view] =
           IF action = "group-by-stem"
           THEN LastTwo(Append(@, [groupedByStem |-> groupedByStem[view],
                                   visible |-> Visible(store[view])]))
           ELSE << >>]
    /\ stemToggled' = [stemToggled EXCEPT ![view] = @ \/ action = "group-by-stem"]
    /\ lastEvent' = Event("optionEvent", view, action, NoFormValues, FALSE)
    /\ UNCHANGED << dom, scaleCalls, panelVars >>

\* The view draws its rows again from its store, as fresh elements.  When it
\* does so relative to the store's calls and to the render triggers is the
\* view's business; the controller takes no part in it.
Redraw(view) ==
    /\ dom[view] # Rerender(store[view])
    /\ dom' = [dom EXCEPT ![view] = Rerender(store[view])]
    /\ lastEvent' = Event("redraw", view, "", NoFormValues, FALSE)
    /\ UNCHANGED << groupedByStem, orderedByDiffProp, store, scaleCalls, stemRun,
                    stemToggled, panelVars >>

Passes(view) == IF dom[view] = << >> THEN 0 ELSE Len(dom[view][1].circles)

\* datachanged on a frequent-words view
DataChanged(view) ==
    /\ Passes(view) < MaxPasses
    /\ lollipop(view)
    /\ lastEvent' = Event("datachanged", view, "", NoFormValues, FALSE)
    /\ UNCHANGED << groupedByStem, orderedByDiffProp, store, stemRun, stemToggled,
                    panelVars >>

\* afterrender on a frequent-words view
AfterRender(view) ==
    /\ Passes(view) < MaxPasses
    /\ lollipop(view)
    /\ lastEvent' = Event("afterrender", view, "", NoFormValues, FALSE)
    /\ UNCHANGED << groupedByStem, orderedByDiffProp, store, stemRun, stemToggled,
                    panelVars >>

\* menuButtonClicked on a layout panel
MenuButtonClicked(panel, type) ==
    /\ menuButtonClicked(panel, type)
    /\ lastEvent' = Event("menuButtonClicked", panel, type, NoFormValues, FALSE)
    /\ UNCHANGED << viewVars, formValues, loadCount, lastParams >>

\* newSlice on a layout panel
NewSlice(panel, fv, same) ==
    /\ same \/ \A s \in StoreNames : loadCount[panel][s] < MaxLoads
    /\ getFrequentWordForSlice(panel, fv, same)
    /\ lastEvent' = Event("newSlice", panel, "", << fv >>, same)
    /\ UNCHANGED << viewVars, panelItems, created, shown >>

----------------------------------------------------------------------------
(* Specifications                                                          *)

NoEvent == Event("none", "", "", NoFormValues, FALSE)

\* Views as the overlay creates them: flags unset, store unfiltered and
\* unsorted, rows drawn, no lollipop pass yet.
InitViewsWith(rows) ==
    /\ groupedByStem = [v \in Views |-> FALSE]
    /\ orderedByDiffProp = [v \in Views |-> FALSE]
    /\ store = [v \in Views |-> [data |-> rows[v], filters |-> << >>, sorters |-> << >>]]
    /\ dom = [v \in Views |->
                 Rerender([data |-> rows[v], filters |-> << >>, sorters |-> << >>])]
    /\ scaleCalls = [v \in Views |-> {}]
    /\ stemRun = [v \in Views |-> << >>]
    /\ stemToggled = [v \in Views |-> FALSE]

\* Panels as constructed: no overlay, no formValues, nothing loaded.
InitPanels ==
    /\ panelItems = [p \in Panels |-> << >>]
    /\ created = [p \in Panels |-> 0]
    /\ shown = [p \in Panels |-> 0]
    /\ formValues = [p \in Panels |-> << >>]
    /\ loadCount = [p \in Panels |-> [s \in StoreNames |-> 0]]
    /\ lastParams = [p \in Panels |-> [s \in StoreNames |-> << >>]]

\* Panels whose overlay is open, hosting the views.
InitPanelsOpen ==
    /\ panelItems = [p \in Panels |-> << "frequent-words-overlay" >>]
    /\ created = [p \in Panels |-> 1]
    /\ shown = [p \in Panels |-> 1]
    /\ formValues = [p \in Panels |-> << >>]
    /\ loadCount = [p \in Panels |-> [s \in StoreNames |-> 0]]
    /\ lastParams = [p \in Panels |-> [s \in StoreNames |-> << >>]]

\* The toggles of the two list views.
InitToggle ==
    /\ \E rows \in [Views -> SampleRowLists] : InitViewsWith(rows)
    /\ InitPanelsOpen
    /\ lastEvent = NoEvent

NextToggle == \E v \in Views, a \in Actions : OptionEvent(v, a)

SpecToggle == InitToggle /\ [][NextToggle]_vars

\* The toggles of one view, over every store content within the bounds.
InitStore ==
    /\ \E nouns \in RowListsUpTo(MaxRows) :
           InitViewsWith([v \in Views |-> IF v \in FrequentWordsViews THEN nouns ELSE << >>])
    /\ InitPanelsOpen
    /\ lastEvent = NoEvent

NextStore == \E v \in FrequentWordsViews, a \in Actions : OptionEvent(v, a)

SpecStore == InitStore /\ [][NextStore]_vars

\* A frequent-words view: its toggles, its redraws and its lollipop passes.
Init ==
    /\ \E nouns \in RowListsOver(ScoredRows, MaxRows) :
           InitViewsWith([v \in Views |-> IF v \in FrequentWordsViews THEN nouns ELSE << >>])
    /\ InitPanelsOpen
    /\ lastEvent = NoEvent

Next ==
    \E v \in FrequentWordsViews :
        \/ \E a \in Actions : OptionEvent(v, a)
        \/ Redraw(v)
        \/ DataChanged(v)
        \/ AfterRender(v)

Spec == Init /\ [][Next]_vars

\* The layout panels: overlay and slice loads.
InitPanel ==
    /\ InitViewsWith([v \in Views |-> << >>])
    /\ InitPanels
    /\ lastEvent = NoEvent

NextPanel ==
    \E p \in Panels :
        \/ \E t \in MenuTypes : MenuButtonClicked(p, t)
        \/ \E fv \in FormValuesSet, same \in BOOLEAN : NewSlice(p, fv, same)

SpecPanel == InitPanel /\ [][NextPanel]_vars

----------------------------------------------------------------------------
(* Properties of the toggles                                               *)

StemValue(v) == IF groupedByStem[v] THEN 1 ELSE 0

\* The rows of v's store whose is_lemmatized is lem, in store order.
RowsWithLemma(v, lem) ==
    LET Keep(row) == row.is_lemmatized = lem
    IN  SelectSeq(store[v].data, Keep)

IsSortedDesc(rows, property) ==
    \A i \in 1..(Len(rows) - 1) : KeyOf(rows[i], property) >= KeyOf(rows[i + 1], property)

HasBothLemmaKinds(v) ==
    /\ \E i \in 1..Len(store[v].data) : store[v].data[i].is_lemmatized = 0
    /\ \E i \in 1..Len(store[v].data) : store[v].data[i].is_lemmatized = 1

IsOptionEvent(e, v, action) ==
    e.name = "optionEvent" /\ e.target = v /\ e.action = action

IsRenderPass(e, v) == e.name \in {"datachanged", "afterrender"} /\ e.target = v

\* C1: once a view has handled a group-by-stem event, its store has exactly
\* one active filter, is_lemmatized = 1 when groupedByStem is true and 0 when
\* it is false, and the store shows exactly the rows with that value.
C1_SingleStemFilter ==
    \A v \in Views :
        stemToggled[v] =>
            /\ Len(store[v].filters) = 1
            /\ store[v].filters[1] = [property |-> "is_lemmatized", value |-> StemValue(v)]
            /\ Visible(store[v]) = RowsWithLemma(v, StemValue(v))

\* Three group-by-stem events in a row on a store holding both kinds of rows.
C1_Witness ==
    /\ stemToggled["nouns"]
    /\ Len(stemRun["nouns"]) = 2
    /\ stemRun["nouns"][1].groupedByStem
    /\ groupedByStem["nouns"]
    /\ HasBothLemmaKinds("nouns")

\* C2: after two group-by-stem events in a row on a view, groupedByStem and
\* the store's filtered rows are what they were before the two events.
C2_DoubleToggleRestores ==
    \A v \in Views :
        Len(stemRun[v]) = 2 =>
            /\ groupedByStem[v] = stemRun[v][1].groupedByStem
            /\ Visible(store[v]) = stemRun[v][1].visible

\* C3: every order-by-score event flips orderedByDiffProp and sorts the store
\* by score_sentences when the new flag is true and by count when it is false,
\* descending; no store ever has an ascending sorter.
C3_SortRequest ==
    /\ [](\A v \in Views : \A i \in 1..Len(store[v].sorters) :
              store[v].sorters[i].direction = "DESC")
    /\ [][\A v \in Views :
             IsOptionEvent(lastEvent', v, "order-by-score") =>
                 LET property == IF orderedByDiffProp'[v] THEN "score_sentences" ELSE "count"
                 IN  /\ orderedByDiffProp'[v] = ~orderedByDiffProp[v]
                     /\ store'[v].sorters =
                            << [property |-> property, direction |-> "DESC"] >>
                     /\ IsSortedDesc(store'[v].data, property)]_vars

\* A second order-by-score event has put the store in descending order of
\* count, against the order of the scores.
C3_Witness ==
    /\ IsOptionEvent(lastEvent, "nouns", "order-by-score")
    /\ ~orderedByDiffProp["nouns"]
    /\ Len(store["nouns"].data) = 2
    /\ store["nouns"].data[1].count > store["nouns"].data[2].count
    /\ store["nouns"].data[1].score_sentences < store["nouns"].data[2].score_sentences

\* C9: a group-by-stem event leaves orderedByDiffProp, the sorter and the row
\* order alone; an order-by-score event leaves groupedByStem and the filters
\* alone; any other action leaves flags and store alone; and no option event
\* on a view changes the flags, the store or the rows drawn of another view.
C9_TogglesIndependent ==
    [][\A v \in Views :
          /\ IsOptionEvent(lastEvent', v, "group-by-stem") =>
                 /\ orderedByDiffProp'[v] = orderedByDiffProp[v]
                 /\ store'[v].sorters = store[v].sorters
                 /\ store'[v].data = store[v].data
          /\ IsOptionEvent(lastEvent', v, "order-by-score") =>
                 /\ groupedByStem'[v] = groupedByStem[v]
                 /\ store'[v].filters = store[v].filters
          /\ IsOptionEvent(lastEvent', v, "other") =>
                 /\ groupedByStem'[v] = groupedByStem[v]
                 /\ orderedByDiffProp'[v] = orderedByDiffProp[v]
                 /\ store'[v] = store[v]
          /\ (lastEvent'.name = "optionEvent" /\ lastEvent'.target = v) =>
                 \A w \in Views \ {v} :
                     /\ groupedByStem'[w] = groupedByStem[w]
                     /\ orderedByDiffProp'[w] = orderedByDiffProp[w]
                     /\ store'[w] = store[w]
                     /\ dom'[w] = dom[w]]_vars

\* A group-by-stem event on a view sorted by score, next to a view that is
\* filtered and sorted itself.
C9_Witness ==
    /\ IsOptionEvent(lastEvent, "nouns", "group-by-stem")
    /\ orderedByDiffProp["nouns"]
    /\ store["nouns"].sorters = << [property |-> "score_sentences", direction |-> "DESC"] >>
    /\ Len(store["phrases"].filters) = 1
    /\ Len(store["phrases"].sorters) = 1
    /\ ~groupedByStem["phrases"]

----------------------------------------------------------------------------
(* Properties of the lollipop pass                                         *)

InRange(x) == Leq(Num(4), x) /\ Leq(x, Num(96))

\* C4, as stated: over a rendered row set with at least one row, every line
\* starts at scale(0) = 4, the dot of a row with the maximal score is at
\* scale(maxScore) = 96, and every dot lies in [4, 96].
C4_ScaleEndpoints ==
    \A v \in FrequentWordsViews :
        \A i \in 1..Len(dom[v]) :
            LET e == dom[v][i]
                maxScore == MaxOf(DataOf(dom[v]))
            IN  \A k \in 1..Len(e.circles) :
                    /\ e.lines[k].x1 = Num(4)
                    /\ e.score_sentences = maxScore => e.circles[k].cx = Num(96)
                    /\ InRange(e.circles[k].cx)

\* C4, amended: every line starts at scale(0) = 4 and every dot lies in
\* [4, 96]; the dot of a row with the maximal score is at 96 when that score
\* is positive, and when every score is 0 every dot is at 4.
C4_ScaleEndpointsPositiveMax ==
    \A v \in FrequentWordsViews :
        \A i \in 1..Len(dom[v]) :
            LET e == dom[v][i]
                maxScore == MaxOf(DataOf(dom[v]))
            IN  \A k \in 1..Len(e.circles) :
                    /\ e.lines[k].x1 = Num(4)
                    /\ (maxScore > 0 /\ e.score_sentences = maxScore) =>
                           e.circles[k].cx = Num(96)
                    /\ maxScore = 0 => e.circles[k].cx = Num(4)
                    /\ InRange(e.circles[k].cx)
                    /\ e.lines[k].x2 = e.circles[k].cx

\* Two rows with scores 1 and 2 after a pass: dots at 50 and at 96.
C4_Witness ==
    /\ Len(dom["nouns"]) = 2
    /\ dom["nouns"][1].score_sentences = 1
    /\ dom["nouns"][2].score_sentences = 2
    /\ Len(dom["nouns"][1].circles) = 1
    /\ dom["nouns"][1].circles[1].cx = Num(50)
    /\ dom["nouns"][2].circles[1].cx = Num(96)

\* C5: a pass over no rows draws nothing and applies scale to no value.
C5_EmptyPassSkipsScale ==
    \A v \in FrequentWordsViews :
        (IsRenderPass(lastEvent, v) /\ dom[v] = << >>) => scaleCalls[v] = {}

\* C6: after a pass, every rendered row carries exactly one dot and one line,
\* placed by the mapping of the rows now rendered.
C6_OneDotOneLinePerRow ==
    \A v \in FrequentWordsViews :
        IsRenderPass(lastEvent, v) =>
            \A i \in 1..Len(dom[v]) :
                LET e == dom[v][i]
                    maxscore == d3_max(DataOf(dom[v]))
                IN  /\ Len(e.circles) = 1
                    /\ Len(e.lines) = 1
                    /\ e.circles[1].cx = scale(maxscore, e.score_sentences)
                    /\ e.lines[1].x2 = scale(maxscore, e.score_sentences)

----------------------------------------------------------------------------
(* Properties of the layout panels                                         *)

Overlays(p) == {i \in 1..Len(panelItems[p]) : panelItems[p][i] = "frequent-words-overlay"}

IsMenuEvent(e, p, type) ==
    e.name = "menuButtonClicked" /\ e.target = p /\ e.action = type

\* C8: a panel holds at most one frequent-words-overlay; a frequent-words
\* event creates, shows and adds it when the panel has none and changes
\* nothing when it has one; an event of another type changes nothing.
C8_SingleOverlay ==
    /\ [](\A p \in Panels :
             /\ Cardinality(Overlays(p)) <= 1
             /\ created[p] = Cardinality(Overlays(p))
             /\ shown[p] = Cardinality(Overlays(p)))
    /\ [][\A p \in Panels :
             /\ (IsMenuEvent(lastEvent', p, "frequent-words") /\ Overlays(p) = {}) =>
                    /\ created'[p] = created[p] + 1
                    /\ shown'[p] = shown[p] + 1
                    /\ panelItems'[p] = Append(panelItems[p], "frequent-words-overlay")
             /\ (IsMenuEvent(lastEvent', p, "frequent-words") /\ Overlays(p) # {}) =>
                    /\ created'[p] = created[p]
                    /\ shown'[p] = shown[p]
                    /\ panelItems'[p] = panelItems[p]
             /\ (lastEvent'.name = "menuButtonClicked" /\ lastEvent'.target = p
                    /\ lastEvent'.action # "frequent-words") =>
                    /\ created'[p] = created[p]
                    /\ shown'[p] = shown[p]
                    /\ panelItems'[p] = panelItems[p]]_vars

\* Both panels have their overlay, the first after the second.
C8_Witness ==
    /\ IsMenuEvent(lastEvent, "p1", "frequent-words")
    /\ panelItems["p1"] = << "frequent-words-overlay" >>
    /\ panelItems["p2"] = << "frequent-words-overlay" >>
    /\ created["p1"] = 1 /\ shown["p1"] = 1

\* The params a load must carry for form values fv.
ExpectedParams(params, fv) ==
    /\ DOMAIN params = {"instance", "user", "query"}
                           \cup (IF fv.search = << >> THEN {} ELSE {"gov"})
    /\ params["instance"] = "instance"
    /\ params["user"] = "user"
    /\ params["query"] = fv.serialized["query"]
    /\ fv.search # << >> => params["gov"] = "word"

\* C10: a newSlice event on the same slice issues no load; otherwise it issues
\* one load on each of NStore, VStore and JStore with the params of the
\* event's form values, instance and user.  The panel's formValues is set
\* from the event only when it was unset.
C10_SliceLoads ==
    [][\A p \in Panels :
          (lastEvent'.name = "newSlice" /\ lastEvent'.target = p) =>
              LET fv == lastEvent'.fv[1]
              IN  /\ lastEvent'.same =>
                         /\ loadCount'[p] = loadCount[p]
                         /\ lastParams'[p] = lastParams[p]
                  /\ ~lastEvent'.same =>
                         \A s \in StoreNames :
                             /\ loadCount'[p][s] = loadCount[p][s] + 1
                             /\ ExpectedParams(lastParams'[p][s], fv)
                  /\ formValues'[p] = IF formValues[p] = << >> THEN << fv >>
                                      ELSE formValues[p]
                  /\ \A q \in Panels \ {p} :
                         /\ loadCount'[q] = loadCount[q]
                         /\ formValues'[q] = formValues[q]]_vars

\* A second slice with other form values has been loaded; the panel keeps
\* the form values of the first.
C10_Witness ==
    /\ lastEvent.name = "newSlice" /\ lastEvent.target = "p1" /\ ~lastEvent.same
    /\ formValues["p1"] # << >>
    /\ formValues["p1"] # lastEvent.fv
    /\ loadCount["p1"]["NStore"] = 2
    /\ lastParams["p1"]["JStore"]["query"] = lastEvent.fv[1].serialized["query"]
    /\ "gov" \in DOMAIN lastParams["p1"]["VStore"]

====
